---- MODULE Spec2Model ----
(***************************************************************************)
(* Model of src/uavOffboardPosCtrl.py: the OffboardPosCtrl test case.      *)
(*                                                                         *)
(* Two threads share the PoseStamped object self.pos:                      *)
(*   - the foreground thread runs setUp, test_posctrl (with                *)
(*     reach_position inlined per waypoint) and tearDown, and then         *)
(*     rostest.rosrun signals the rospy shutdown;                          *)
(*   - the background thread runs send_pos.                                *)
(* A third party, the telemetry subscriber of the base class, overwrites   *)
(* self.local_position at any time: each convergence check sees whatever   *)
(* position was reported last, an input of the check.                      *)
(*                                                                         *)
(* Every assignment statement of reach_position and every attribute read   *)
(* of the publish call is a step of its own: nothing in the source makes   *)
(* a group of them atomic.                                                 *)
(***************************************************************************)
EXTENDS Integers, Sequences, FiniteSets, TLC

(***************************************************************************)
(* Program constants.                                                      *)
(***************************************************************************)
\* self.radius = 1
radius == 1
\* loop_freq = 2  (Hz) in reach_position
loop_freq == 2
\* the timeout passed to every reach_position call in test_posctrl
timeout == 45
\* mutant: the second and the third waypoint change places
positions_swapped ==
    << <<0, 0, 0>>, <<50, -50, 20>>, <<50, 50, 20>>, <<-50, -50, 20>>,
       <<0, 0, 20>> >>

\* positions = ((0, 0, 0), (50, 50, 20), (50, -50, 20), (-50, -50, 20), (0, 0, 20))
positions ==
    << <<0, 0, 0>>, <<50, 50, 20>>, <<50, -50, 20>>, <<-50, -50, 20>>, <<0, 0, 20>> >>

\* mutant: the loop of test_posctrl stops one waypoint early
NumWaypoints_short == Len(positions) - 1

\* len(positions)
NumWaypoints == Len(positions)

\* mutant: one iteration too many
PollBudget_offByOne == timeout * loop_freq + 1

\* xrange(timeout * loop_freq): the number of iterations of the polling loop
PollBudget == timeout * loop_freq

\* Quaternion() as PoseStamped() creates it: all four components zero
ZeroQuaternion == <<0, 0, 0, 0>>

\* quaternion_from_euler(0, 0, math.radians(0)): the identity rotation (x, y, z, w)
NorthQuaternion == <<0, 0, 0, 1>>

\* mutant: the message starts out at the second waypoint of the plan
PoseStamped_preset ==
    [x |-> 50, y |-> 50, z |-> 20, orientation |-> ZeroQuaternion,
     stamp |-> "zero", frame_id |-> ""]

\* PoseStamped(): position and orientation zeroed, empty header
PoseStamped ==
    [x |-> 0, y |-> 0, z |-> 0, orientation |-> ZeroQuaternion,
     stamp |-> "zero", frame_id |-> ""]

\* the pose part (position and orientation) of a setpoint or of a published message
PoseOf(m) == [x |-> m.x, y |-> m.y, z |-> m.z, orientation |-> m.orientation]

(***************************************************************************)
(* The positions the telemetry callback may report: every waypoint, and    *)
(* points at distance exactly 1 (the radius) and just above it from a      *)
(* waypoint.                                                               *)
(***************************************************************************)
ReportedPositions ==
    {positions[w] : w \in 1..Len(positions)} \cup {<<50, 50, 21>>, <<1, 1, 0>>}

\* the history counter of publishes after the shutdown signal stops counting here
MaxPubAfterShutdown == 2

\* is_at_position on its own is called with coordinates in -MaxCoord..MaxCoord
\* and offsets in 0..MaxRadius
MaxCoord == 2
MaxRadius == 2

VARIABLES
    pc,             \* foreground thread: the statement it is about to execute
    outcome,        \* "running", "Succeeded" or "Failed": the verdict of test_posctrl
    failure,        \* the statement whose exception failed the test, or "none"
    wp,             \* loop variable i of test_posctrl, 1-based (0 before the loop)
    iter,           \* loop variable i of reach_position
    reached,        \* local variable reached of reach_position
    pos,            \* self.pos, the shared setpoint
    shutdown,       \* rospy.is_shutdown()
    spc,            \* background thread: the statement it is about to execute
    buf,            \* background thread: the fields publish has read so far
    lastPub,        \* the message publish has just handed to the transport
                    \* (NoMsg once send_pos has gone on to its sleep)
    sleepExc,       \* whether the rate.sleep() send_pos has just left raised
    \* history variables
    calls,          \* the mission operations invoked so far, in order
    returned,       \* those of them that have returned normally, in order
    commits,        \* waypoints whose setpoint was written in full, in order
    committed,      \* the pose of the most recently committed setpoint
    nchecks,        \* is_at_position calls made by the reach_position in progress
    ntrue,          \* how many of them returned True
    reachedSet,     \* waypoints for which a convergence check returned True
    pubAfterShutdown, \* publishes completed after the shutdown signal (counted
                      \* up to MaxPubAfterShutdown)
    pubBegan,       \* whether every waypoint had been reached when the publish
                    \* call in progress read its first field (FALSE outside a
                    \* publish call)
    \* the arguments and the result of one call of is_at_position on its own
    probe

vars ==
    <<pc, outcome, failure, wp, iter, reached, pos, shutdown,
      spc, buf, lastPub, sleepExc, calls, returned, commits, committed, nchecks, ntrue,
      reachedSet, pubAfterShutdown, pubBegan, probe>>

fgVars == <<pc, outcome, failure, wp, iter, reached>>
bgVars == <<spc, buf, lastPub, sleepExc, pubAfterShutdown, pubBegan>>
histVars == <<calls, returned, commits, committed, nchecks, ntrue, reachedSet>>

NoMsg == [none |-> TRUE]
NoBuf == <<>>

\* no call of is_at_position on its own is under way
NoProbe ==
    [desired |-> <<0, 0, 0>>, actual |-> <<0, 0, 0>>, offset |-> 0,
     done |-> TRUE, result |-> FALSE]

\* the state of the two threads after the construction of the test case
MissionInit ==
    /\ pc = "setUp"
    /\ outcome = "running"
    /\ failure = "none"
    /\ wp = 0
    /\ iter = 0
    /\ reached = FALSE
    /\ pos = PoseStamped
    /\ shutdown = FALSE
    /\ spc = "unstarted"
    /\ buf = NoBuf
    /\ lastPub = NoMsg
    /\ sleepExc = FALSE
    /\ calls = <<>>
    /\ returned = <<>>
    /\ commits = <<>>
    /\ committed = PoseOf(PoseStamped)
    /\ nchecks = 0
    /\ ntrue = 0
    /\ reachedSet = {}
    /\ pubAfterShutdown = 0
    /\ pubBegan = FALSE

Init ==
    /\ MissionInit
    /\ probe = NoProbe

(***************************************************************************)
(* is_at_position(x, y, z, offset): np.linalg.norm(desired - pos) < offset *)
(* over integer coordinates and integer offsets.  np.linalg.norm is the    *)
(* non-negative square root of the sum of squares; against an integer      *)
(* offset the comparison of the root comes out as the comparison of its    *)
(* integer part, which is what norm yields here.                           *)
(***************************************************************************)
SquaredNorm(d) == d[1] * d[1] + d[2] * d[2] + d[3] * d[3]

\* the sums of squares is_at_position meets: between two positions of the
\* mission, and between two points of the bounded coordinates
SquaredNorms ==
    {SquaredNorm(<<p[1] - q[1], p[2] - q[2], p[3] - q[3]>>) :
        p \in ReportedPositions, q \in ReportedPositions}
    \cup (0..(3 * (2 * MaxCoord) * (2 * MaxCoord)))

\* the integer part of the square root, tabulated
Isqrt == [n \in SquaredNorms |-> CHOOSE k \in 0..n : k * k <= n /\ n < (k + 1) * (k + 1)]

\* np.linalg.norm
norm(d) == Isqrt[SquaredNorm(d)]

\* mutant: a position at exactly the offset counts as reached
is_at_position_inclusive(local_position, x, y, z, offset) ==
    LET desired == <<x, y, z>>
        diff == <<desired[1] - local_position[1],
                  desired[2] - local_position[2],
                  desired[3] - local_position[3]>>
    IN  norm(diff) <= offset

\* return np.linalg.norm(desired - pos) < offset
is_at_position(local_position, x, y, z, offset) ==
    LET desired == <<x, y, z>>
        diff == <<desired[1] - local_position[1],
                  desired[2] - local_position[2],
                  desired[3] - local_position[3]>>
    IN  norm(diff) < offset

(***************************************************************************)
(* The operations inherited from MavrosTestCommon (wait_for_topics,        *)
(* wait_for_landed_state, set_mode, set_arm) are bounded waits that end    *)
(* either by returning or by a failed assertion, which unittest turns into *)
(* the failure of the test method.  test_posctrl ignores their return      *)
(* values: only the exception stops it.                                    *)
(***************************************************************************)
BaseOpOutcomes == {"returns", "raises"}

\* mutant: the failure is recorded but the waypoint loop goes on
Raise_continue(here) ==
    /\ pc' = "for_positions"
    /\ outcome' = "Failed"
    /\ failure' = here

\* the exception of statement `here` leaves test_posctrl, which has no handler:
\* the test has failed and unittest goes on to tearDown
Raise(here) ==
    /\ pc' = "tearDown"
    /\ outcome' = "Failed"
    /\ failure' = here

\* mutant: the failure of the call does not stop test_posctrl
AfterCall_ignoring(result, next) == next

\* the statement test_posctrl executes after a call to an inherited operation:
\* the following one when the call returns, none of its own when it raises
AfterCall(result, next) ==
    IF result = "returns" THEN next ELSE "tearDown"

\* one call of test_posctrl to an inherited operation
MissionCall(here, op, arg, next) ==
    /\ pc = here
    /\ calls' = Append(calls, <<op, arg>>)
    /\ \E result \in BaseOpOutcomes :
          /\ pc' = AfterCall(result, next)
          /\ IF result = "returns"
             THEN /\ returned' = Append(returned, <<op, arg>>)
                  /\ outcome' = IF next = "tearDown" THEN "Succeeded" ELSE outcome
                  /\ UNCHANGED failure
             ELSE /\ outcome' = "Failed"
                  /\ failure' = here
                  /\ UNCHANGED returned
    /\ UNCHANGED <<wp, iter, reached, pos, shutdown>>
    /\ UNCHANGED bgVars
    /\ UNCHANGED <<commits, committed, nchecks, ntrue, reachedSet>>
    /\ UNCHANGED probe

(***************************************************************************)
(* Foreground thread.                                                      *)
(***************************************************************************)
\* mutant: setUp creates the thread of send_pos and does not start it
setUp_noStart ==
    /\ pc = "setUp"
    /\ pos' = PoseStamped
    /\ pc' = "wait_for_topics"
    /\ UNCHANGED <<outcome, failure, wp, iter, reached, shutdown>>
    /\ UNCHANGED bgVars
    /\ UNCHANGED histVars
    /\ UNCHANGED probe

\* setUp: self.pos = PoseStamped(), then the daemon thread of send_pos is started
setUp ==
    /\ pc = "setUp"
    /\ pos' = PoseStamped
    /\ spc' = "init"
    /\ pc' = "wait_for_topics"
    /\ UNCHANGED <<outcome, failure, wp, iter, reached, shutdown>>
    /\ UNCHANGED <<buf, lastPub, sleepExc, pubAfterShutdown, pubBegan>>
    /\ UNCHANGED histVars
    /\ UNCHANGED probe

\* self.wait_for_topics(60)
wait_for_topics ==
    MissionCall("wait_for_topics", "wait_for_topics", 60, "wait_for_landed_state_1")

\* self.wait_for_landed_state(MAV_LANDED_STATE_ON_GROUND, 10, -1)
wait_for_landed_state_1 ==
    MissionCall("wait_for_landed_state_1", "wait_for_landed_state", 10, "set_mode_OFFBOARD")

\* self.set_mode("OFFBOARD", 5)
set_mode_OFFBOARD ==
    MissionCall("set_mode_OFFBOARD", "set_mode_OFFBOARD", 5, "set_arm_True")

\* self.set_arm(True, 5)
set_arm_True ==
    MissionCall("set_arm_True", "set_arm_True", 5, "for_positions")

\* for i in xrange(len(positions)): the call of reach_position for the next
\* waypoint, or the end of the loop
for_positions ==
    /\ pc = "for_positions"
    /\ IF wp < NumWaypoints
       THEN /\ wp' = wp + 1
            /\ calls' = Append(calls, <<"reach_position", wp + 1>>)
            /\ pc' = "reach_x"
       ELSE /\ pc' = "set_mode_AUTO.LAND"
            /\ UNCHANGED <<wp, calls>>
    /\ UNCHANGED <<outcome, failure, iter, reached, pos, shutdown>>
    /\ UNCHANGED bgVars
    /\ UNCHANGED <<returned, commits, committed, nchecks, ntrue, reachedSet>>
    /\ UNCHANGED probe

\* self.pos.pose.position.x = x
reach_x ==
    /\ pc = "reach_x"
    /\ pos' = [pos EXCEPT !.x = positions[wp][1]]
    /\ pc' = "reach_y"
    /\ UNCHANGED <<outcome, failure, wp, iter, reached, shutdown>>
    /\ UNCHANGED bgVars
    /\ UNCHANGED histVars
    /\ UNCHANGED probe

\* self.pos.pose.position.y = y
reach_y ==
    /\ pc = "reach_y"
    /\ pos' = [pos EXCEPT !.y = positions[wp][2]]
    /\ pc' = "reach_z"
    /\ UNCHANGED <<outcome, failure, wp, iter, reached, shutdown>>
    /\ UNCHANGED bgVars
    /\ UNCHANGED histVars
    /\ UNCHANGED probe

\* self.pos.pose.position.z = z
reach_z ==
    /\ pc = "reach_z"
    /\ pos' = [pos EXCEPT !.z = positions[wp][3]]
    /\ pc' = "reach_orientation"
    /\ UNCHANGED <<outcome, failure, wp, iter, reached, shutdown>>
    /\ UNCHANGED bgVars
    /\ UNCHANGED histVars
    /\ UNCHANGED probe

\* self.pos.pose.orientation = Quaternion(*quaternion): the last field of the
\* setpoint is written, the setpoint of waypoint wp is complete.  Then
\* reached = False and the polling loop starts at i = 0.
reach_orientation ==
    /\ pc = "reach_orientation"
    /\ pos' = [pos EXCEPT !.orientation = NorthQuaternion]
    /\ commits' = Append(commits, wp)
    /\ committed' = PoseOf(pos')
    /\ reached' = FALSE
    /\ iter' = 0
    /\ pc' = "reach_for"
    /\ UNCHANGED <<outcome, failure, wp, shutdown>>
    /\ UNCHANGED bgVars
    /\ UNCHANGED <<calls, returned, nchecks, ntrue, reachedSet>>
    /\ UNCHANGED probe

\* mutant: the polling loop has no iteration limit (while True)
reach_for_unbounded ==
    /\ pc = "reach_for"
    /\ pc' = "reach_check"
    /\ UNCHANGED <<outcome, failure, wp, iter, reached, pos, shutdown>>
    /\ UNCHANGED bgVars
    /\ UNCHANGED histVars
    /\ UNCHANGED probe

\* for i in xrange(timeout * loop_freq): another iteration, or the loop is exhausted
reach_for ==
    /\ pc = "reach_for"
    /\ pc' = IF iter < PollBudget THEN "reach_check" ELSE "reach_assert"
    /\ UNCHANGED <<outcome, failure, wp, iter, reached, pos, shutdown>>
    /\ UNCHANGED bgVars
    /\ UNCHANGED histVars
    /\ UNCHANGED probe

\* mutant: no break, the loop sleeps and polls on
AfterConvergentCheck_noBreak == "reach_sleep"

\* where the polling loop goes after a check that returned True: break
AfterConvergentCheck == "reach_assert"

\* if self.is_at_position(...): reached = True; break
\* local_position is the position the telemetry callback stored last
reach_check ==
    /\ pc = "reach_check"
    /\ nchecks' = nchecks + 1
    /\ \E local_position \in ReportedPositions :
          IF is_at_position(local_position, pos.x, pos.y, pos.z, radius)
          THEN /\ reached' = TRUE
               /\ ntrue' = ntrue + 1
               /\ reachedSet' = reachedSet \cup {wp}
               /\ pc' = AfterConvergentCheck
          ELSE /\ pc' = "reach_sleep"
               /\ UNCHANGED <<reached, ntrue, reachedSet>>
    /\ UNCHANGED <<outcome, failure, wp, iter, pos, shutdown>>
    /\ UNCHANGED bgVars
    /\ UNCHANGED <<calls, returned, commits, committed>>
    /\ UNCHANGED probe

\* reach_position is left, by return or by exception: its locals are gone
LeaveReachPosition ==
    /\ iter' = 0
    /\ reached' = FALSE
    /\ nchecks' = 0
    /\ ntrue' = 0

\* mutant: the interruption of the sleep is noted and the polling goes on
reach_sleep_logged ==
    /\ pc = "reach_sleep"
    /\ \E raised \in BOOLEAN :
          /\ failure' = IF raised THEN "reach_sleep" ELSE failure
          /\ iter' = iter + 1
          /\ pc' = "reach_for"
          /\ UNCHANGED <<outcome, reached, nchecks, ntrue>>
    /\ UNCHANGED <<wp, pos, shutdown>>
    /\ UNCHANGED bgVars
    /\ UNCHANGED <<calls, returned, commits, committed, reachedSet>>
    /\ UNCHANGED probe

\* try: rate.sleep()  except rospy.ROSException as e: self.fail(e)
reach_sleep ==
    /\ pc = "reach_sleep"
    /\ \E raised \in BOOLEAN :
          IF raised
          THEN /\ Raise("reach_sleep")
               /\ LeaveReachPosition
          ELSE /\ iter' = iter + 1
               /\ pc' = "reach_for"
               /\ UNCHANGED <<outcome, failure, reached, nchecks, ntrue>>
    /\ UNCHANGED <<wp, pos, shutdown>>
    /\ UNCHANGED bgVars
    /\ UNCHANGED <<calls, returned, commits, committed, reachedSet>>
    /\ UNCHANGED probe

\* mutant: the outcome of the polling loop is not asserted
reach_assert_unchecked ==
    /\ pc = "reach_assert"
    /\ returned' = Append(returned, <<"reach_position", wp>>)
    /\ pc' = "for_positions"
    /\ UNCHANGED <<outcome, failure>>
    /\ iter' = 0
    /\ reached' = FALSE
    /\ nchecks' = 0
    /\ ntrue' = 0
    /\ UNCHANGED <<wp, pos, shutdown>>
    /\ UNCHANGED <<spc, buf, lastPub, sleepExc, pubAfterShutdown, pubBegan>>
    /\ UNCHANGED <<calls, commits, committed, reachedSet>>
    /\ UNCHANGED probe

\* self.assertTrue(reached, "took too long to get into position ...")
reach_assert ==
    /\ pc = "reach_assert"
    /\ IF reached
       THEN /\ returned' = Append(returned, <<"reach_position", wp>>)
            /\ pc' = "for_positions"
            /\ UNCHANGED <<outcome, failure>>
       ELSE /\ Raise("reach_assert")
            /\ UNCHANGED returned
    /\ LeaveReachPosition
    /\ UNCHANGED <<wp, pos, shutdown>>
    /\ UNCHANGED bgVars
    /\ UNCHANGED <<calls, commits, committed, reachedSet>>
    /\ UNCHANGED probe

\* self.set_mode("AUTO.LAND", 5)
set_mode_AUTO_LAND ==
    MissionCall("set_mode_AUTO.LAND", "set_mode_AUTO.LAND", 5, "wait_for_landed_state_2")

\* self.wait_for_landed_state(MAV_LANDED_STATE_ON_GROUND, 45, 0)
wait_for_landed_state_2 ==
    MissionCall("wait_for_landed_state_2", "wait_for_landed_state", 45, "set_arm_False")

\* self.set_arm(False, 5): the last statement of test_posctrl
set_arm_False ==
    MissionCall("set_arm_False", "set_arm_False", 5, "tearDown")

\* tearDown: runs after test_posctrl returned or raised; only the base class's tearDown
tearDown ==
    /\ pc = "tearDown"
    /\ pc' = "rosrun"
    /\ UNCHANGED <<outcome, failure, wp, iter, reached, pos, shutdown>>
    /\ UNCHANGED bgVars
    /\ UNCHANGED histVars
    /\ UNCHANGED probe

\* rostest.rosrun: after the test case has run, the node is shut down
rosrun ==
    /\ pc = "rosrun"
    /\ shutdown' = TRUE
    /\ pc' = "exit"
    /\ UNCHANGED <<outcome, failure, wp, iter, reached, pos>>
    /\ UNCHANGED bgVars
    /\ UNCHANGED histVars
    /\ UNCHANGED probe

(***************************************************************************)
(* Background thread: send_pos.                                            *)
(***************************************************************************)
\* mutant: send_pos starts from a fresh message (self.pos = PoseStamped())
send_pos_init_resets ==
    /\ spc = "init"
    /\ pos' = [PoseStamped EXCEPT !.frame_id = "base_footprint"]
    /\ spc' = "while"
    /\ UNCHANGED <<shutdown, buf, lastPub, sleepExc, pubAfterShutdown, pubBegan>>
    /\ UNCHANGED fgVars
    /\ UNCHANGED histVars
    /\ UNCHANGED probe

\* rate = rospy.Rate(10); self.pos.header = Header(); frame_id = "base_footprint"
send_pos_init ==
    /\ spc = "init"
    /\ pos' = [pos EXCEPT !.stamp = "zero", !.frame_id = "base_footprint"]
    /\ spc' = "while"
    /\ UNCHANGED <<shutdown, buf, lastPub, sleepExc, pubAfterShutdown, pubBegan>>
    /\ UNCHANGED fgVars
    /\ UNCHANGED histVars
    /\ UNCHANGED probe

\* mutant: the loop condition never sees the shutdown
is_shutdown_never == FALSE

\* mutant: the loop also ends once the last waypoint has been reached
is_shutdown_afterWaypoints == shutdown \/ Cardinality(reachedSet) = NumWaypoints

\* rospy.is_shutdown()
is_shutdown == shutdown

\* while not rospy.is_shutdown():
send_pos_while ==
    /\ spc = "while"
    /\ IF is_shutdown
       THEN spc' = "done" /\ UNCHANGED sleepExc
       ELSE spc' = "stamp" /\ sleepExc' = FALSE
    /\ UNCHANGED <<pos, shutdown, buf, lastPub, pubAfterShutdown, pubBegan>>
    /\ UNCHANGED fgVars
    /\ UNCHANGED histVars
    /\ UNCHANGED probe

\* mutant: every iteration stamps and publishes a fresh message
send_pos_stamp_fresh ==
    /\ spc = "stamp"
    /\ pos' = [PoseStamped EXCEPT !.stamp = "now", !.frame_id = pos.frame_id]
    /\ spc' = "publish_x"
    /\ UNCHANGED <<shutdown, buf, lastPub, sleepExc, pubAfterShutdown, pubBegan>>
    /\ UNCHANGED fgVars
    /\ UNCHANGED histVars
    /\ UNCHANGED probe

\* self.pos.header.stamp = rospy.Time.now()
send_pos_stamp ==
    /\ spc = "stamp"
    /\ pos' = [pos EXCEPT !.stamp = "now"]
    /\ spc' = "publish_x"
    /\ UNCHANGED <<shutdown, buf, lastPub, sleepExc, pubAfterShutdown, pubBegan>>
    /\ UNCHANGED fgVars
    /\ UNCHANGED histVars
    /\ UNCHANGED probe

\* mutant: publish waits while the foreground sleeps in its polling loop
publish_x_locked ==
    /\ pc # "reach_sleep"
    /\ spc = "publish_x"
    /\ buf' = <<pos.x>>
    /\ pubBegan' = (Cardinality(reachedSet) = NumWaypoints)
    /\ spc' = "publish_y"
    /\ UNCHANGED <<pos, shutdown, lastPub, sleepExc, pubAfterShutdown>>
    /\ UNCHANGED <<pc, outcome, failure, wp, iter, reached>>
    /\ UNCHANGED <<calls, returned, commits, committed, nchecks, ntrue, reachedSet>>
    /\ UNCHANGED probe

\* self.pos_sp_pub.publish(self.pos): the message is serialised field by field;
\* here position.x is read
publish_x ==
    /\ spc = "publish_x"
    /\ buf' = <<pos.x>>
    /\ pubBegan' = (Cardinality(reachedSet) = NumWaypoints)
    /\ spc' = "publish_y"
    /\ UNCHANGED <<pos, shutdown, lastPub, sleepExc, pubAfterShutdown>>
    /\ UNCHANGED fgVars
    /\ UNCHANGED histVars
    /\ UNCHANGED probe

\* publish: position.y is read
publish_y ==
    /\ spc = "publish_y"
    /\ buf' = Append(buf, pos.y)
    /\ spc' = "publish_z"
    /\ UNCHANGED <<pos, shutdown, lastPub, sleepExc, pubAfterShutdown, pubBegan>>
    /\ UNCHANGED fgVars
    /\ UNCHANGED histVars
    /\ UNCHANGED probe

\* publish: position.z is read
publish_z ==
    /\ spc = "publish_z"
    /\ buf' = Append(buf, pos.z)
    /\ spc' = "publish_send"
    /\ UNCHANGED <<pos, shutdown, lastPub, sleepExc, pubAfterShutdown, pubBegan>>
    /\ UNCHANGED fgVars
    /\ UNCHANGED histVars
    /\ UNCHANGED probe

\* publish: the orientation is read and the serialised message is sent
publish_send ==
    /\ spc = "publish_send"
    /\ lastPub' = [x |-> buf[1], y |-> buf[2], z |-> buf[3],
                   orientation |-> pos.orientation,
                   stamp |-> pos.stamp, frame_id |-> pos.frame_id,
                   latest |-> committed, started |-> wp,
                   nreached |-> Cardinality(reachedSet), began |-> pubBegan]
    /\ buf' = NoBuf
    /\ pubBegan' = FALSE
    /\ pubAfterShutdown' =
          IF shutdown /\ pubAfterShutdown < MaxPubAfterShutdown
          THEN pubAfterShutdown + 1
          ELSE pubAfterShutdown
    /\ spc' = "sleep"
    /\ UNCHANGED <<pos, shutdown, sleepExc>>
    /\ UNCHANGED fgVars
    /\ UNCHANGED histVars
    /\ UNCHANGED probe

\* mutant: the interruption of the sleep is not caught and ends the thread
AfterSleep_propagates(raised) == IF raised THEN "crashed" ELSE "while"

\* except rospy.ROSInterruptException: pass -- whether rate.sleep() returned or
\* raised, send_pos goes on to the loop condition
AfterSleep(raised) == "while"

\* try: rate.sleep()  except rospy.ROSInterruptException: pass
\* rate.sleep() raises when the node is shut down, and may raise before that
\* (time moved backwards)
send_pos_sleep ==
    /\ spc = "sleep"
    /\ \E raised \in (IF shutdown THEN {TRUE} ELSE BOOLEAN) :
          /\ sleepExc' = raised
          /\ spc' = AfterSleep(raised)
    /\ lastPub' = NoMsg
    /\ UNCHANGED <<pos, shutdown, buf, pubAfterShutdown, pubBegan>>
    /\ UNCHANGED fgVars
    /\ UNCHANGED histVars
    /\ UNCHANGED probe

test_posctrl ==
    \/ wait_for_topics
    \/ wait_for_landed_state_1
    \/ set_mode_OFFBOARD
    \/ set_arm_True
    \/ for_positions
    \/ reach_x
    \/ reach_y
    \/ reach_z
    \/ reach_orientation
    \/ reach_for
    \/ reach_check
    \/ reach_sleep
    \/ reach_assert
    \/ set_mode_AUTO_LAND
    \/ wait_for_landed_state_2
    \/ set_arm_False

Foreground == setUp \/ test_posctrl \/ tearDown \/ rosrun

send_pos ==
    \/ send_pos_init
    \/ send_pos_while
    \/ send_pos_stamp
    \/ publish_x
    \/ publish_y
    \/ publish_z
    \/ publish_send
    \/ send_pos_sleep

Next == Foreground \/ send_pos

Spec == Init /\ [][Next]_vars

\* both threads are scheduled again and again (the interpreter switches threads
\* regularly and both loops sleep on a timer)
FairSpec == Spec /\ WF_vars(Foreground) /\ WF_vars(send_pos)

\* only the background thread is scheduled for sure: the foreground may stay in
\* any of its waits for as long as it likes
StreamerFairSpec == Spec /\ WF_vars(send_pos)

(***************************************************************************)
(* The mission with a publisher that can fail.  self.pos_sp_pub.publish    *)
(* raises rospy.ROSException when the topic is closed and                  *)
(* ROSSerializationException when the message cannot be serialised.  The   *)
(* call stands before the try statement of the loop body, not inside it:   *)
(* its exception leaves the while loop and send_pos, and ends the thread.  *)
(***************************************************************************)
AfterPublishFailure == "crashed"

\* self.pos_sp_pub.publish(self.pos) raises instead of sending
publish_raises ==
    /\ spc = "publish_send"
    /\ spc' = AfterPublishFailure
    /\ buf' = NoBuf
    /\ pubBegan' = FALSE
    /\ UNCHANGED <<pos, shutdown, lastPub, sleepExc, pubAfterShutdown>>
    /\ UNCHANGED fgVars
    /\ UNCHANGED histVars
    /\ UNCHANGED probe

PublishFaultNext == Next \/ publish_raises

PublishFaultSpec == Init /\ [][PublishFaultNext]_vars

(***************************************************************************)
(* is_at_position on its own: one call with arguments drawn from the       *)
(* bounded coordinates and offsets; the two threads do not run.            *)
(***************************************************************************)
Coords == (-MaxCoord..MaxCoord) \X (-MaxCoord..MaxCoord) \X (-MaxCoord..MaxCoord)

ConvInit ==
    /\ MissionInit
    /\ \E desired \in Coords, actual \in Coords, offset \in 0..MaxRadius :
          probe = [desired |-> desired, actual |-> actual, offset |-> offset,
                   done |-> FALSE, result |-> FALSE]

\* self.local_position holds `actual`; is_at_position(x, y, z, offset) is called
\* with the coordinates of `desired`
call_is_at_position ==
    /\ ~probe.done
    /\ probe' = [probe EXCEPT
                    !.done = TRUE,
                    !.result = is_at_position(probe.actual, probe.desired[1],
                                              probe.desired[2], probe.desired[3],
                                              probe.offset)]
    /\ UNCHANGED <<fgVars, bgVars, histVars, pos, shutdown>>

ConvNext == call_is_at_position

ConvSpec == ConvInit /\ [][ConvNext]_vars

(***************************************************************************)
(* Vocabulary of the properties.                                           *)
(***************************************************************************)
IsPrefix(s, t) == Len(s) <= Len(t) /\ s = SubSeq(t, 1, Len(s))

\* the calls of a mission in which nothing fails, in order
ExpectedCalls ==
    << <<"wait_for_topics", 60>>, <<"wait_for_landed_state", 10>>,
       <<"set_mode_OFFBOARD", 5>>, <<"set_arm_True", 5>> >>
    \o [k \in 1..Len(positions) |-> <<"reach_position", k>>]
    \o << <<"set_mode_AUTO.LAND", 5>>, <<"wait_for_landed_state", 45>>,
          <<"set_arm_False", 5>> >>

InSeq(e, s) == \E k \in 1..Len(s) : s[k] = e

\* the foreground is inside reach_position
InReachPosition ==
    pc \in {"reach_x", "reach_y", "reach_z", "reach_orientation", "reach_for",
            "reach_check", "reach_sleep", "reach_assert"}

\* the foreground is in the polling loop of reach_position
Polling == pc \in {"reach_for", "reach_check", "reach_sleep"}

\* test_posctrl is over
MissionOver == pc \in {"tearDown", "rosrun", "exit"}

(***************************************************************************)
(* C1.  No torn reads: the position and orientation of every published     *)
(* setpoint are together those of the setpoint committed most recently     *)
(* when the message is sent (the zeroed initial one or one complete        *)
(* waypoint setpoint), never fields of two different setpoints.            *)
(***************************************************************************)
C1_NoTornReads ==
    lastPub # NoMsg => PoseOf(lastPub) = lastPub.latest

C3_TimeoutAfterExactBudget ==
    /\ nchecks <= timeout * loop_freq
    /\ (pc = "reach_assert" /\ ~reached) =>
          (nchecks = timeout * loop_freq /\ ntrue = 0)
    /\ pc = "reach_check" => nchecks < timeout * loop_freq
    /\ failure = "reach_assert" => (MissionOver /\ nchecks = 0)

\* the loop is exhausted after 90 negative checks
C3_Witness ==
    /\ pc = "reach_assert"
    /\ ~reached
    /\ nchecks = 90
    /\ wp = 2

(***************************************************************************)
(* C4.  The first convergent poll wins: a check that returns True ends     *)
(* the polling of that waypoint at once (it is the only positive check     *)
(* and the last check made), the waypoint then counts as reached for good, *)
(* and reach_position returns.                                             *)
(***************************************************************************)
C4_FirstConvergentPollWins ==
    /\ [](reached => (pc = "reach_assert" /\ ntrue = 1 /\ nchecks = iter + 1))
    /\ [](ntrue > 0 => (reached /\ wp \in reachedSet))
    /\ [][(pc = "reach_check" /\ pc' # pc /\ reached')
             => (pc' = "reach_assert" /\ nchecks' = nchecks + 1)]_vars
    /\ [][(pc = "reach_assert" /\ reached /\ pc' # pc)
             => (pc' = "for_positions" /\ outcome' = outcome
                 /\ returned' = Append(returned, <<"reach_position", wp>>))]_vars
    /\ [][reachedSet \subseteq reachedSet']_vars

\* the second waypoint is reached on the first poll
C4_Witness ==
    /\ reached
    /\ wp = 2
    /\ nchecks = 1
    /\ iter = 0

(***************************************************************************)
(* C5.  Waypoint order is strict: setpoints are committed in plan order    *)
(* without gaps or repetitions, reach_position is called once per          *)
(* waypoint in plan order, a waypoint is written only after a convergence  *)
(* check of the previous one returned True, and only the waypoint          *)
(* committed last is polled.                                               *)
(***************************************************************************)
C5_StrictWaypointOrder ==
    /\ commits = [k \in 1..Len(commits) |-> k]
    /\ SelectSeq(calls, LAMBDA e : e[1] = "reach_position")
          = [k \in 1..wp |-> <<"reach_position", k>>]
    /\ Len(commits) \in {wp - 1, wp} \cap Nat
    /\ (wp > 1 /\ (InReachPosition \/ Len(commits) = wp)) => (wp - 1) \in reachedSet
    /\ \A k \in 1..Len(commits) : k > 1 => (k - 1) \in reachedSet
    /\ nchecks > 0 => (Len(commits) = wp /\ InReachPosition)
    /\ (Polling \/ pc = "reach_assert") => Len(commits) = wp
    /\ outcome = "Failed" => ~InReachPosition

\* the third waypoint is committed, the first two reached
C5_Witness ==
    /\ commits = <<1, 2, 3>>
    /\ reachedSet = {1, 2}
    /\ pc = "reach_check"
    /\ nchecks = 2

(***************************************************************************)
(* C6.  A failure halts the mission: once a step has failed, test_posctrl  *)
(* is over, no further operation is called, no setpoint is written and no  *)
(* check is made; the calls made are a prefix of the calls of the plan, so *)
(* each is attempted once and none is retried, and the failed call is the  *)
(* last one made.                                                          *)
(***************************************************************************)
C6_FailureHalts ==
    /\ [](outcome = "Failed" => (MissionOver /\ failure # "none"))
    /\ [](IsPrefix(calls, ExpectedCalls))
    /\ [](failure \in {"reach_sleep", "reach_assert"}
             => calls[Len(calls)] = <<"reach_position", wp>>)
    /\ [](failure \notin {"none", "reach_sleep", "reach_assert"}
             => (/\ IsPrefix(returned, calls)
                 /\ Len(calls) = Len(returned) + 1))
    /\ [][outcome = "Failed"
             => (/\ outcome' = "Failed"
                 /\ failure' = failure
                 /\ calls' = calls
                 /\ returned' = returned
                 /\ commits' = commits
                 /\ PoseOf(pos') = PoseOf(pos)
                 /\ nchecks' = 0)]_vars

\* the polling of the second waypoint timed out and the mission is over
C6_Witness ==
    /\ outcome = "Failed"
    /\ failure = "reach_assert"
    /\ wp = 2
    /\ pc = "exit"

(***************************************************************************)
(* C7.  If the request for mode OFFBOARD fails, no arm request is made,    *)
(* no waypoint is attempted, the shared setpoint keeps its initial zeroed  *)
(* pose and no convergence check is made.                                  *)
(***************************************************************************)
C7_OffboardFailureAborts ==
    failure = "set_mode_OFFBOARD" =>
        /\ outcome = "Failed"
        /\ MissionOver
        /\ calls = << <<"wait_for_topics", 60>>, <<"wait_for_landed_state", 10>>,
                      <<"set_mode_OFFBOARD", 5>> >>
        /\ ~InSeq(<<"set_arm_True", 5>>, calls)
        /\ wp = 0
        /\ commits = <<>>
        /\ PoseOf(pos) = PoseOf(PoseStamped)
        /\ nchecks = 0
        /\ reachedSet = {}

\* the mode request failed and the test case has run to its end
C7_Witness ==
    /\ failure = "set_mode_OFFBOARD"
    /\ pc = "exit"

(***************************************************************************)
(* C8.  Whenever the mission has ended, in Succeeded or in Failed, the     *)
(* shutdown is signalled and send_pos leaves its loop for good: from then  *)
(* on nothing is published.                                                *)
(***************************************************************************)
C8_StreamerStopsAfterMission ==
    (outcome # "running") ~> [](shutdown /\ spc = "done" /\ lastPub = NoMsg)

\* the mode request failed, the shutdown was signalled and send_pos has ended
C8_Witness ==
    /\ failure = "set_mode_OFFBOARD"
    /\ shutdown
    /\ spc = "done"

(***************************************************************************)
(* C9.  After the shutdown signal send_pos publishes at most one more      *)
(* setpoint; an interrupted sleep is swallowed (the thread goes on to the  *)
(* loop condition, it never ends by the exception), and the loop condition *)
(* that sees the signal ends the loop.                                     *)
(***************************************************************************)
C9_ExitWithinOneInterval ==
    /\ [](pubAfterShutdown <= 1)
    /\ [](spc \in {"unstarted", "init", "while", "stamp", "publish_x", "publish_y",
                   "publish_z", "publish_send", "sleep", "done"})
    /\ [](spc = "done" => shutdown)
    /\ []((shutdown /\ pubAfterShutdown = 1)
             => spc \in {"sleep", "while", "done"})
    /\ [][(spc = "sleep" /\ spc' # spc) => spc' = "while"]_vars
    /\ [][(spc = "while" /\ shutdown /\ spc' # spc) => spc' = "done"]_vars
    /\ [][spc = "done" => spc' = "done"]_vars

\* the signal came while send_pos was publishing: one more publish, the
\* interrupted sleep is swallowed, the loop has ended
C9_Witness ==
    /\ spc = "done"
    /\ sleepExc
    /\ pubAfterShutdown = 1

(***************************************************************************)
(* C10.  The mission goes through its steps in the one order of the plan:  *)
(* AUTO.LAND is requested only after every waypoint was reached, disarm    *)
(* only after the landed-state wait that follows AUTO.LAND returned, and   *)
(* the mission succeeds only when every call of the plan returned.         *)
(***************************************************************************)
C10_MissionOrder ==
    /\ IsPrefix(returned, ExpectedCalls)
    /\ IsPrefix(calls, ExpectedCalls)
    /\ Len(calls) \in {Len(returned), Len(returned) + 1}
    /\ InSeq(<<"set_mode_AUTO.LAND", 5>>, calls) =>
          /\ reachedSet = 1..Len(positions)
          /\ \A k \in 1..Len(positions) : InSeq(<<"reach_position", k>>, returned)
    /\ InSeq(<<"set_arm_False", 5>>, calls) =>
          /\ InSeq(<<"set_mode_AUTO.LAND", 5>>, returned)
          /\ InSeq(<<"wait_for_landed_state", 45>>, returned)
    /\ outcome = "Succeeded" =>
          /\ returned = ExpectedCalls
          /\ failure = "none"
          /\ MissionOver

\* the mission has succeeded
C10_Witness ==
    /\ outcome = "Succeeded"
    /\ pc = "tearDown"

(***************************************************************************)
(* C11: when no inherited operation and no sleep raises and every waypoint *)
(* is found reached before its polling loop runs out, the mission reaches  *)
(* the five waypoints (0,0,0), (50,50,20), (50,-50,20), (-50,-50,20),      *)
(* (0,0,20) in this order and ends in Succeeded.  In the model nothing     *)
(* having failed is failure = "none": the k-th setpoint committed is the   *)
(* k-th of the five, and a mission in which nothing ever fails eventually  *)
(* is Succeeded with all five waypoints committed and reached in order and *)
(* every operation of the mission returned.                                *)
(***************************************************************************)
C11_NominalMissionSucceeds ==
    /\ [][commits' # commits =>
             <<pos'.x, pos'.y, pos'.z>> =
               << <<0, 0, 0>>, <<50, 50, 20>>, <<50, -50, 20>>,
                  <<-50, -50, 20>>, <<0, 0, 20>> >>[Len(commits')]]_vars
    /\ ([](failure = "none")) =>
          <>(/\ outcome = "Succeeded"
             /\ commits = <<1, 2, 3, 4, 5>>
             /\ reachedSet = 1..5
             /\ returned = ExpectedCalls)

\* the nominal mission has run to its end
C11_Witness ==
    /\ pc = "exit"
    /\ outcome = "Succeeded"
    /\ failure = "none"
    /\ commits = <<1, 2, 3, 4, 5>>
    /\ <<pos.x, pos.y, pos.z>> = <<0, 0, 20>>

(***************************************************************************)
(* C12: every foreground wait is bounded and the mission terminates.  The  *)
(* polling loop of reach_position makes at most timeout * loop_freq        *)
(* iterations and checks, and every run eventually leaves test_posctrl     *)
(* with the verdict Succeeded or Failed: it stays in no intermediate       *)
(* statement for ever.                                                     *)
(***************************************************************************)
C12_MissionTerminates ==
    /\ [](iter <= timeout * loop_freq /\ nchecks <= timeout * loop_freq)
    /\ <>(MissionOver /\ outcome \in {"Succeeded", "Failed"})

\* a mission ended by the exhaustion of a polling loop, and left
C12_Witness ==
    /\ pc = "exit"
    /\ outcome = "Failed"
    /\ failure = "reach_assert"

(***************************************************************************)
(* C13: a failing publish call does not end the streaming loop.  The       *)
(* exception of publish is swallowed and send_pos goes on to its sleep and *)
(* to the next iteration: the thread of send_pos is never ended by an      *)
(* exception.                                                              *)
(***************************************************************************)
C13_PublishFailureSwallowed == spc # "crashed"

(***************************************************************************)
(* C14: an exception of the polling sleep of reach_position fails the      *)
(* mission at once.  The step in which rate.sleep() raises takes           *)
(* test_posctrl to its end with the verdict Failed; from then on no        *)
(* convergence check is made, no setpoint is written, and no waypoint or   *)
(* mission operation is started or completed.                              *)
(***************************************************************************)
C14_SleepInterruptionFails ==
    /\ [](failure = "reach_sleep" =>
             /\ outcome = "Failed"
             /\ MissionOver
             /\ calls[Len(calls)] = <<"reach_position", wp>>
             /\ ~InSeq(<<"reach_position", wp>>, returned))
    /\ [][(pc = "reach_sleep" /\ pc' \notin {"reach_sleep", "reach_for"}) =>
             (pc' = "tearDown" /\ outcome' = "Failed" /\ failure' = "reach_sleep")]_vars
    /\ [][failure = "reach_sleep" =>
             /\ nchecks' = nchecks
             /\ PoseOf(pos') = PoseOf(pos)
             /\ commits' = commits
             /\ calls' = calls
             /\ returned' = returned
             /\ wp' = wp
             /\ outcome' = outcome
             /\ failure' = failure]_vars

\* the sleep was interrupted while the second waypoint was polled: the mission is
\* over with three waypoints never started
C14_Witness ==
    /\ failure = "reach_sleep"
    /\ pc = "exit"
    /\ wp = 2
    /\ Len(calls) = 6

(***************************************************************************)
(* C15 as stated: the shared setpoint is read-only to send_pos, no step of *)
(* send_pos modifies any field of it.  The foreground writes the header    *)
(* only in setUp (a fresh PoseStamped), so every header field would keep   *)
(* the value of a fresh message for ever.                                  *)
(***************************************************************************)
C15_StreamerWritesNothing ==
    /\ pos.frame_id = PoseStamped.frame_id
    /\ pos.stamp = PoseStamped.stamp

(***************************************************************************)
(* C15 amended: send_pos writes the header of the shared setpoint (a new   *)
(* header and its frame_id before the loop, the stamp in every iteration)  *)
(* and nothing else.  No step of send_pos changes the position or the      *)
(* orientation, which only the four writes of reach_position change, and   *)
(* no step of the foreground after setUp changes the header.               *)
(***************************************************************************)
C15_StreamerWritesHeaderOnly ==
    /\ [][send_pos => PoseOf(pos') = PoseOf(pos)]_vars
    /\ [][PoseOf(pos') # PoseOf(pos) =>
             pc \in {"reach_x", "reach_y", "reach_z", "reach_orientation"}]_vars
    /\ [][(pos'.stamp # pos.stamp \/ pos'.frame_id # pos.frame_id) =>
             (send_pos_init \/ send_pos_stamp)]_vars
    /\ [][(pc # "setUp" /\ Foreground) =>
             (pos'.stamp = pos.stamp /\ pos'.frame_id = pos.frame_id)]_vars

\* send_pos has stamped a setpoint that holds the second waypoint
C15_Witness ==
    /\ spc = "publish_x"
    /\ pos.stamp = "now"
    /\ pos.frame_id = "base_footprint"
    /\ <<pos.x, pos.y, pos.z>> = <<50, 50, 20>>

(***************************************************************************)
(* C16: the thread of send_pos is started exactly once per mission, by     *)
(* setUp, before the wait for the topics and so before the OFFBOARD        *)
(* request, the arm request and every waypoint.  Only the step of setUp    *)
(* takes send_pos to its first statement, and only from not started;       *)
(* once started it is never not started again; and as soon as setUp is     *)
(* over, hence whenever any mission operation has been called, it has been *)
(* started.                                                                *)
(***************************************************************************)
C16_StreamerStartedOnceFirst ==
    /\ [](pc # "setUp" => spc # "unstarted")
    /\ [](spc = "unstarted" => calls = <<>> /\ commits = <<>>)
    /\ [][(spc' = "init" /\ spc # "init") =>
             (spc = "unstarted" /\ pc = "setUp" /\ pc' = "wait_for_topics")]_vars
    /\ [][spc # "unstarted" => spc' # "unstarted"]_vars
    /\ [][pc # "setUp" => pc' # "setUp"]_vars

\* send_pos runs its loop while the foreground has not yet called wait_for_topics
C16_Witness ==
    /\ pc = "wait_for_topics"
    /\ calls = <<>>
    /\ spc = "publish_send"

(***************************************************************************)
(* C17: the position and the orientation of the shared setpoint change     *)
(* once per waypoint, in the writes at the start of reach_position, and at *)
(* no other time.  From the commit of waypoint wp to the end of its        *)
(* polling loop and its assertion no step of either thread changes them:   *)
(* the setpoint is the committed one, its position is positions[wp], and   *)
(* that is what every convergence check of the waypoint compares with.     *)
(* Each waypoint is committed once, in the order of the plan.              *)
(***************************************************************************)
C17_SetpointStableWhilePolling ==
    /\ []((Polling \/ pc = "reach_assert") =>
             /\ PoseOf(pos) = committed
             /\ <<pos.x, pos.y, pos.z>> = positions[wp]
             /\ pos.orientation = NorthQuaternion
             /\ commits = [k \in 1..wp |-> k])
    /\ [][(Polling \/ pc = "reach_assert") => PoseOf(pos') = PoseOf(pos)]_vars
    /\ [][PoseOf(pos') # PoseOf(pos) =>
             (reach_x \/ reach_y \/ reach_z \/ reach_orientation)]_vars
    /\ [][commits' # commits =>
             (pc = "reach_orientation" /\ commits' = Append(commits, wp)
              /\ ~InSeq(wp, commits))]_vars

\* the third waypoint is being polled while send_pos has just published
C17_Witness ==
    /\ pc = "reach_check"
    /\ wp = 3
    /\ nchecks = 2
    /\ lastPub # NoMsg
    /\ <<lastPub.x, lastPub.y, lastPub.z>> = <<50, -50, 20>>

(***************************************************************************)
(* C18: for all desired and actual positions with integer coordinates in   *)
(* -MaxCoord..MaxCoord and all radii in 0..MaxRadius, is_at_position       *)
(* returns True exactly when the squared Euclidean distance between the    *)
(* two is below the squared radius.  At a distance equal to the radius it  *)
(* returns False, and for equal positions and a positive radius it returns *)
(* True.                                                                   *)
(***************************************************************************)
C18_ReachedIffWithinRadius ==
    probe.done =>
        LET dx == probe.desired[1] - probe.actual[1]
            dy == probe.desired[2] - probe.actual[2]
            dz == probe.desired[3] - probe.actual[3]
            squared == dx * dx + dy * dy + dz * dz
        IN  /\ probe.result = (squared < probe.offset * probe.offset)
            /\ squared = probe.offset * probe.offset => ~probe.result
            /\ (probe.desired = probe.actual /\ probe.offset > 0) => probe.result

\* a call with the actual position at exactly the radius from the desired one
C18_Witness ==
    /\ probe.done
    /\ ~probe.result
    /\ probe.offset = 2
    /\ probe.desired = <<1, 2, 0>>
    /\ probe.actual = <<1, 0, 0>>

(***************************************************************************)
(* C19: before the first waypoint, that is while the foreground waits for  *)
(* the topics and for the landed state, requests OFFBOARD and arms, the    *)
(* shared setpoint holds the position (0, 0, 0) of a fresh message and     *)
(* every setpoint send_pos publishes carries that position and no other.   *)
(***************************************************************************)
C19_ZeroSetpointBeforeFirstWaypoint ==
    /\ wp = 0 => <<pos.x, pos.y, pos.z>> = <<0, 0, 0>>
    /\ (lastPub # NoMsg /\ lastPub.started = 0) =>
          <<lastPub.x, lastPub.y, lastPub.z>> = <<0, 0, 0>>

\* a setpoint published while the foreground is about to arm
C19_Witness ==
    /\ pc = "set_arm_True"
    /\ lastPub # NoMsg
    /\ lastPub.started = 0
    /\ lastPub.stamp = "now"

====
